---- MODULE Spec2Model ----
(***************************************************************************)
(* Model of the ETL notebook dlake-project.ipynb: main() runs              *)
(* process_song_data and then process_log_data against one input          *)
(* location and one output location.  Dataframes are bags of rows          *)
(* (functions from a row to its positive number of copies); an output      *)
(* location is a record holding the rows visible under the path and the    *)
(* job-success marker.                                                     *)
(*                                                                         *)
(* Integers of the model are 32 bits wide, so an epoch-millisecond value   *)
(* ts is held as the pair [s |-> ts \div 1000, ms |-> ts % 1000] and a     *)
(* microsecond instant as [s |-> seconds, us |-> microsecond of second].   *)
(***************************************************************************)
EXTENDS Integers, Sequences, FiniteSets, Bags, TLC

\* ------------------------------------------------------------------ bounds
MaxSongs == 2
MaxLogs == 2

\* The null of a string column.
NULL == "<null>"

\* The five output tables, in the order main() writes them.
TableOrder == <<"songs", "artists", "users", "time", "songplays">>
Tables == {TableOrder[i] : i \in 1..Len(TableOrder)}

\* ------------------------------------------------------------ bag helpers
RECURSIVE SumOver(_, _)
SumOver(f, S) ==
    IF S = {} THEN 0
    ELSE LET x == CHOOSE y \in S : TRUE IN f[x] + SumOver(f, S \ {x})

\* The bags over universe U that hold at most n rows.
BagsUpTo(U, n) ==
    { [x \in {y \in U : f[y] > 0} |-> f[x]] :
        f \in {g \in [U -> 0..n] : SumOver(g, U) <= n} }

\* The rows of bag B that satisfy P, with their multiplicities.
Where(B, P(_)) == [x \in {y \in DOMAIN B : P(y)} |-> B[x]]

\* The bags that hold some of the rows of bag B.
SubBags(B) ==
    { [x \in {y \in DOMAIN B : f[y] > 0} |-> f[x]] :
        f \in {g \in [DOMAIN B -> 0..BagCardinality(B)] :
                  \A x \in DOMAIN B : g[x] <= B[x]} }

\* The image of bag B under F, multiplicities added up.
Select(B, F(_)) == BagOfAll(F, B)

\* ---------------------------------------------------------- calendar
\* Days since 1970-01-01 of a proleptic Gregorian date (y, m, d).
DaysFromCivil(y, m, d) ==
    LET yy  == IF m <= 2 THEN y - 1 ELSE y
        era == yy \div 400
        yoe == yy - era * 400
        mp  == (m + 9) % 12
        doy == (153 * mp + 2) \div 5 + d - 1
        doe == yoe * 365 + yoe \div 4 - yoe \div 100 + doy
    IN  era * 146097 + doe - 719468

\* The date [year, month, day] of a number of days since 1970-01-01.
CivilFromDays(z0) ==
    LET z   == z0 + 719468
        era == z \div 146097
        doe == z - era * 146097
        yoe == (doe - doe \div 1460 + doe \div 36524 - doe \div 146096) \div 365
        doy == doe - (365 * yoe + yoe \div 4 - yoe \div 100)
        mp  == (5 * doy + 2) \div 153
        d   == doy - (153 * mp + 2) \div 5 + 1
        m   == IF mp < 10 THEN mp + 3 ELSE mp - 9
        y   == yoe + era * 400 + (IF m <= 2 THEN 1 ELSE 0)
    IN  [year |-> y, month |-> m, day |-> d]

\* ISO weekday of a day number, Monday = 1 .. Sunday = 7.
IsoWeekday(days) == ((days + 3) % 7) + 1

\* Number of ISO weeks (52 or 53) of year y.
IsoWeeksInYear(y) ==
    LET jan1 == IsoWeekday(DaysFromCivil(y, 1, 1))
        leap == (y % 4 = 0 /\ y % 100 # 0) \/ y % 400 = 0
    IN  IF jan1 = 4 \/ (leap /\ jan1 = 3) THEN 53 ELSE 52

\* ---------------------------------------------------------------- inputs
\* Offsets from UTC (seconds) of the system timezone the job may run under.
TzOffsets == {0, 0 - 28800}

\* Song-metadata records the input location may hold (fields of song_schema).
SongRec(sid, title, aid, aname, aloc, yr) ==
    [num_songs |-> 1, artist_id |-> aid, artist_latitude |-> NULL,
     artist_longitude |-> NULL, artist_location |-> aloc, artist_name |-> aname,
     song_id |-> sid, title |-> title, duration |-> 129, year |-> yr]

SongUniverse ==
    { SongRec("S1", "Tom's Diner", "A1", "Suzanne Vega", "LA", 1987),
      SongRec("S1", "Tom's Diner", "A1", "Suzanne Vega", "NY", 1990),
      SongRec(NULL, "Tom's Diner", NULL, "Suzanne Vega", "London", 0) }

\* Epoch-millisecond values: 1541990258796 (2018-11-12 02:37:38.796 UTC),
\* 1546300800000 (2019-01-01 00:00:00 UTC), 1483257600500 (2017-01-01 08:00:00.5 UTC).
Ts1 == [s |-> 1541990258, ms |-> 796]
Ts2 == [s |-> 1546300800, ms |-> 0]
Ts3 == [s |-> 1483257600, ms |-> 500]

\* Usage-log records the input location may hold (the fields the job reads).
LogRec(page, song, artist, ts, uid, level, sess) ==
    [artist |-> artist, song |-> song, page |-> page, ts |-> ts, userId |-> uid,
     firstName |-> "F", lastName |-> "L", gender |-> "F", level |-> level,
     sessionId |-> sess, location |-> "LA", userAgent |-> "UA"]

LogUniverse ==
    { LogRec("NextSong", "Tom's Diner", "Suzanne Vega", Ts1, "10", "free", 5),
      LogRec("NextSong", "Tom's Diner", "Suzanne Vega", Ts1, "11", "paid", 6),
      LogRec("NextSong", NULL, "DNA", Ts2, NULL, "free", 7),
      LogRec("NextSong", "Tom's Diner", "DNA", Ts3, "10", "paid", 8),
      LogRec("Home", "Tom's Diner", "Suzanne Vega", Ts3, "12", "free", 9) }

VARIABLES
    tz,          \* offset from UTC of the system timezone, seconds
    songAvail,   \* the song_data location exists and can be listed
    logAvail,    \* the log-data location exists and can be listed
    songFiles,   \* bag of the records under input_data + 'song_data/*/*/*/*.json'
    logFiles,    \* bag of the records under input_data + 'log-data/'
    pc,          \* the statement of main() that runs next
    failure,     \* the exception that ended the current run and its statement
    retained,    \* df after drop_duplicates(subset=['start_time']), as last evaluated
    store,       \* output location of each table: [exists, files, success]
    runStart,    \* store as it was when the current run started
    committed,   \* tables whose write job succeeded in the current run -> rows written
    firstDone    \* SpecRecorded: store at the end of the first complete run, else <<>>

vars == <<tz, songAvail, logAvail, songFiles, logFiles, pc, failure,
          retained, store, runStart, committed, firstDone>>

\* ------------------------------------------------------- time conversion
\* format_datetime: datetime.fromtimestamp(ts/1000.0), a naive datetime in the
\* system timezone: day number, second of day, microsecond.
format_datetime(ts) ==
    LET local == ts.s + tz
    IN  [ord |-> local \div 86400, sod |-> local % 86400, us |-> ts.ms * 1000]

\* A datetime returned by a udf declared Ts(): mktime of the naive datetime,
\* then seconds and microsecond of the instant.
ToTimestamp(dt) == [s |-> dt.ord * 86400 + dt.sod - tz, us |-> dt.us]

\* A datetime returned by a udf declared Date(): toordinal() - EPOCH_ORDINAL,
\* the time of day is dropped.
ToDate(dt) == dt.ord

get_timestamp(ts) == ToTimestamp(format_datetime(ts))
get_datetime(ts) == ToDate(format_datetime(ts))

\* Spark's implicit cast of a date to a timestamp: midnight of that date in
\* the session timezone.
CastDateToTimestamp(d) == [s |-> d * 86400 - tz, us |-> 0]

\* Spark calendar functions of a timestamp (session timezone).
HourOfTimestamp(t) == ((t.s + tz) % 86400) \div 3600
DateOfTimestamp(t) == (t.s + tz) \div 86400

\* Spark calendar functions of a date column.
hour(d) == HourOfTimestamp(CastDateToTimestamp(d))
dayofmonth(d) == CivilFromDays(d).day
year(d) == CivilFromDays(d).year
month(d) == CivilFromDays(d).month
dayofweek(d) == ((d + 4) % 7) + 1
weekofyear(d) ==
    LET y   == year(d)
        doy == d - DaysFromCivil(y, 1, 1) + 1
        w   == (doy - IsoWeekday(d) + 10) \div 7
    IN  IF w < 1 THEN IsoWeeksInYear(y - 1)
        ELSE IF w > IsoWeeksInYear(y) THEN 1 ELSE w

\* ------------------------------------------------------ dataframe steps
\* Mutant: duplicates are kept.
DistinctOff(B) == B

\* distinct() / dropDuplicates(): one copy of every row.
Distinct(B) == SetToBag(BagToSet(B))

\* A comparison of two string columns is true only when neither is null.
SqlEq(a, b) == a # NULL /\ b # NULL /\ a = b

\* select(['song_id', 'title', 'artist_id', 'year', 'duration'])
SongsRow(r) ==
    [song_id |-> r.song_id, title |-> r.title, artist_id |-> r.artist_id,
     year |-> r.year, duration |-> r.duration]

\* songs_table: the projection, distinct(), where song_id is not null.
songs_table(df) ==
    Where(Distinct(Select(df, SongsRow)), LAMBDA x : x.song_id # NULL)

\* select(['artist_id', 'artist_name', 'artist_location', 'artist_latitude',
\* 'artist_longitude'])
ArtistsRow(r) ==
    [artist_id |-> r.artist_id, artist_name |-> r.artist_name,
     artist_location |-> r.artist_location, artist_latitude |-> r.artist_latitude,
     artist_longitude |-> r.artist_longitude]

\* artists_table: the projection, distinct(), where artist_id is not null.
artists_table(df) ==
    Where(Distinct(Select(df, ArtistsRow)), LAMBDA x : x.artist_id # NULL)

\* Mutant: the filter on page is missing.
FilterNone(B) == B

\* df.filter(df.page == 'NextSong')
FilterNextSong(B) == Where(B, LAMBDA e : SqlEq(e.page, "NextSong"))

\* select(['userId', 'firstName', 'lastName', 'gender', 'level'])
UsersRow(e) ==
    [userId |-> e.userId, firstName |-> e.firstName, lastName |-> e.lastName,
     gender |-> e.gender, level |-> e.level]

\* users_table: the projection of the filtered log, distinct(), where userId
\* is not null.
users_table(df) ==
    Where(Distinct(Select(df, UsersRow)), LAMBDA x : x.userId # NULL)

\* withColumn("start_time", ...) and withColumn("datetime", ...)
WithTimeColumns(e) ==
    [start_time |-> get_timestamp(e.ts), datetime |-> get_datetime(e.ts)] @@ e

\* The columns selected for the time table.
TimeRow(e) ==
    [ts |-> e.ts, start_time |-> e.start_time, datetime |-> e.datetime,
     hour |-> hour(e.datetime), day |-> dayofmonth(e.datetime),
     week |-> weekofyear(e.datetime), year |-> year(e.datetime),
     month |-> month(e.datetime), weekday |-> dayofweek(e.datetime)]

\* time_table: the selected columns, dropDuplicates().
time_table(df) == Distinct(Select(df, TimeRow))

\* Mutant: rows sharing a start_time are all kept.
DropDuplicatesOff(B) == {B}

\* drop_duplicates(subset=['start_time']): the dataframes it may return.  One
\* row is kept for every start_time; which one is not determined (it is the
\* first the aggregation meets, and the order of rows after a shuffle is
\* arbitrary).
DropDuplicates(B) ==
    LET keys == {e.start_time : e \in DOMAIN B}
        picks == {f \in [keys -> DOMAIN B] : \A k \in keys : f[k].start_time = k}
    IN  {SetToBag({f[k] : k \in keys}) : f \in picks}

\* Mutant: the join compares the titles only.
JoinCondTitleOnly(r, e) == SqlEq(r.title, e.song)

\* The join condition (song_df.title == df.song) & (song_df.artist_name == df.artist).
JoinCond(r, e) == SqlEq(r.title, e.song) /\ SqlEq(r.artist_name, e.artist)

\* The columns selected from a joined pair (s = song record, l = log row).
SongplayRow(p) ==
    LET s == p[1]
        l == p[2]
    IN  [start_time |-> l.start_time, year |-> year(l.datetime),
         month |-> month(l.datetime), userId |-> l.userId, level |-> l.level,
         song_id |-> s.song_id, artist_id |-> s.artist_id,
         sessionId |-> l.sessionId, location |-> l.location,
         userAgent |-> l.userAgent]

\* songplays_table: inner join of song_df and df, where page == 'NextSong',
\* then the selected columns.
songplays_table(song_df, df) ==
    LET matched == {q \in (DOMAIN song_df) \X (DOMAIN df) : JoinCond(q[1], q[2])}
        joined  == [q \in matched |-> song_df[q[1]] * df[q[2]]]
    IN  Select(Where(joined, LAMBDA q : SqlEq(q[2].page, "NextSong")), SongplayRow)

\* The log dataframe of process_log_data after the filter and the two
\* withColumn calls.
LogDf == Select(FilterNextSong(logFiles), WithTimeColumns)

\* The rows each write job is given (songplays: for a given deduplicated df).
TableRows(t, dedup) ==
    CASE t = "songs"     -> songs_table(songFiles)
      [] t = "artists"   -> artists_table(songFiles)
      [] t = "users"     -> users_table(FilterNextSong(logFiles))
      [] t = "time"      -> time_table(LogDf)
      [] t = "songplays" -> songplays_table(songFiles, dedup)

\* -------------------------------------------------------------- writing
\* Mutant: the writer appends to an existing location.
SaveModeAppend == "append"

\* The mode of DataFrameWriter when .mode() is not called.
SaveMode == "errorifexists"

\* An output location nothing was written to.
Absent == [exists |-> FALSE, files |-> EmptyBag, success |-> FALSE]

\* The location after a write job that committed all of rows on top of base.
CommittedWrite(base, rows) ==
    [exists |-> TRUE, files |-> base (+) rows, success |-> TRUE]

\* Mutant: a failed job leaves the job-success marker behind.
AbortedWriteMarked(base, part) ==
    [exists |-> TRUE, files |-> base (+) part, success |-> TRUE]

\* The location after a write job that failed when part of the rows had been
\* moved under the path: the job-success marker is not written.
AbortedWrite(base, part) ==
    [exists |-> TRUE, files |-> base (+) part, success |-> FALSE]

\* The rows a write job starts from: what is there (append) or nothing.
WriteBase(t) == IF SaveMode = "append" THEN store[t].files ELSE EmptyBag

\* The write is refused because the path exists.
PathExistsError(t) == SaveMode = "errorifexists" /\ store[t].exists

\* No exception was raised.
NoFailure == [kind |-> "none", at |-> "none"]

\* The run ends with an exception raised by the statement at pc.
Fail(why) == pc' = "failed" /\ failure' = [kind |-> why, at |-> pc]

\* df.write[.partitionBy(...)].parquet(path) of table t at statement `at`;
\* `next` is the statement after it.
Write(t, at, rows, next) ==
    /\ pc = at
    /\ \/ /\ PathExistsError(t)
          /\ Fail("PathExists")
          /\ UNCHANGED <<store, committed>>
       \/ /\ ~PathExistsError(t)
          /\ store' = [store EXCEPT ![t] = CommittedWrite(WriteBase(t), rows)]
          /\ committed' = (t :> store'[t]) @@ committed
          /\ pc' = next
          /\ UNCHANGED failure
       \/ /\ ~PathExistsError(t)
          /\ \E part \in SubBags(rows) :
                store' = [store EXCEPT ![t] = AbortedWrite(WriteBase(t), part)]
          /\ Fail("WriteFailure")
          /\ UNCHANGED committed
    /\ UNCHANGED <<tz, songAvail, logAvail, songFiles, logFiles, runStart>>

\* spark.read.json(path, ...) at statement `at`: the path is resolved when the
\* dataframe is created; a path that does not exist raises.
Read(avail, at, next) ==
    /\ pc = at
    /\ IF avail THEN pc' = next /\ UNCHANGED failure
       ELSE Fail("SourceUnavailable")
    /\ UNCHANGED <<tz, songAvail, logAvail, songFiles, logFiles, retained,
                   store, runStart, committed, firstDone>>

\* ------------------------------------------------------------- actions
Init ==
    /\ tz \in TzOffsets
    /\ songAvail \in BOOLEAN
    /\ logAvail \in BOOLEAN
    /\ songFiles \in (IF songAvail THEN BagsUpTo(SongUniverse, MaxSongs) ELSE {EmptyBag})
    /\ logFiles \in (IF logAvail THEN BagsUpTo(LogUniverse, MaxLogs) ELSE {EmptyBag})
    /\ pc = "idle"
    /\ failure = NoFailure
    /\ retained = EmptyBag
    /\ store = [t \in Tables |-> Absent]
    /\ runStart = [t \in Tables |-> Absent]
    /\ committed = <<>>
    /\ firstDone = <<>>

\* main() is started: create_spark_session() and the two path constants.
StartRun ==
    /\ pc \in {"idle", "done", "failed"}
    /\ pc' = "read_song"
    /\ failure' = NoFailure
    /\ retained' = EmptyBag
    /\ runStart' = store
    /\ committed' = <<>>
    /\ UNCHANGED <<tz, songAvail, logAvail, songFiles, logFiles, store, firstDone>>

\* process_song_data
ReadSongData == Read(songAvail, "read_song", "write_songs")

WriteSongs ==
    /\ Write("songs", "write_songs", TableRows("songs", EmptyBag), "write_artists")
    /\ UNCHANGED <<retained, firstDone>>

WriteArtists ==
    /\ Write("artists", "write_artists", TableRows("artists", EmptyBag), "read_log")
    /\ UNCHANGED <<retained, firstDone>>

\* process_log_data
ReadLogData == Read(logAvail, "read_log", "write_users")

WriteUsers ==
    /\ Write("users", "write_users", TableRows("users", EmptyBag), "write_time")
    /\ UNCHANGED <<retained, firstDone>>

WriteTime ==
    /\ Write("time", "write_time", TableRows("time", EmptyBag), "read_song_again")
    /\ UNCHANGED <<retained, firstDone>>

ReadSongDataAgain == Read(songAvail, "read_song_again", "write_songplays")

\* The write job of songplays: drop_duplicates is evaluated inside it.
WriteSongplaysJob ==
    \E d \in DropDuplicates(LogDf) :
        /\ retained' = d
        /\ Write("songplays", "write_songplays", TableRows("songplays", d), "done")

WriteSongplays == WriteSongplaysJob /\ UNCHANGED firstDone

\* The same step, with the output of the first complete run kept for
\* comparison with later runs.
WriteSongplaysRecorded ==
    /\ WriteSongplaysJob
    /\ firstDone' = IF pc' = "done" /\ firstDone = <<>> THEN store' ELSE firstDone

\* Between runs the operator removes the output locations of the first k
\* tables in write order (k = 5 clears the whole output prefix).
DeleteOutputs(k) ==
    /\ pc = "done" \/ (pc = "failed" /\ k = Len(TableOrder))
    /\ \E i \in 1..k : store[TableOrder[i]].exists
    /\ store' = [t \in Tables |->
                    IF \E i \in 1..k : TableOrder[i] = t THEN Absent ELSE store[t]]
    /\ pc' = "idle"
    /\ failure' = NoFailure
    /\ retained' = EmptyBag
    /\ runStart' = store'
    /\ committed' = <<>>
    /\ UNCHANGED <<tz, songAvail, logAvail, songFiles, logFiles, firstDone>>

Next ==
    \/ StartRun
    \/ ReadSongData
    \/ WriteSongs
    \/ WriteArtists
    \/ ReadLogData
    \/ WriteUsers
    \/ WriteTime
    \/ ReadSongDataAgain
    \/ WriteSongplays
    \/ \E k \in 1..Len(TableOrder) : DeleteOutputs(k)

Spec == Init /\ [][Next]_vars

\* The same machine with the first complete run's output recorded.
NextRecorded ==
    \/ StartRun
    \/ ReadSongData
    \/ WriteSongs
    \/ WriteArtists
    \/ ReadLogData
    \/ WriteUsers
    \/ WriteTime
    \/ ReadSongDataAgain
    \/ WriteSongplaysRecorded
    \/ \E k \in 1..Len(TableOrder) : DeleteOutputs(k)

SpecRecorded == Init /\ [][NextRecorded]_vars

\* ------------------------------------------------------------- claims
\* The statement that writes table t, and the statements a run reaches only
\* after that write has succeeded.
WriteStmt(t) ==
    CASE t = "songs"     -> "write_songs"
      [] t = "artists"   -> "write_artists"
      [] t = "users"     -> "write_users"
      [] t = "time"      -> "write_time"
      [] t = "songplays" -> "write_songplays"

StmtsAfter(t) ==
    CASE t = "songs"     -> {"write_artists", "read_log", "write_users", "write_time",
                             "read_song_again", "write_songplays", "done"}
      [] t = "artists"   -> {"read_log", "write_users", "write_time",
                             "read_song_again", "write_songplays", "done"}
      [] t = "users"     -> {"write_time", "read_song_again", "write_songplays", "done"}
      [] t = "time"      -> {"read_song_again", "write_songplays", "done"}
      [] t = "songplays" -> {"done"}

\* The songplays write job of the current run has run (to its end or to a
\* failure), so that retained is the dataframe it joined.
SongplaysJobRan ==
    \/ pc = "done"
    \/ pc = "failed" /\ failure = [kind |-> "WriteFailure", at |-> "write_songplays"]

\* C1: a run started while the location of a table holds data never gets past
\* the write of that table, that write raises (path exists), and the location
\* stays exactly as it was when the run started.
C1_RerunFailsLoudly ==
    pc # "idle" =>
        \A t \in Tables :
            runStart[t].exists =>
                /\ store[t] = runStart[t]
                /\ pc \notin StmtsAfter(t)
                /\ (pc = "failed" /\ failure.at = WriteStmt(t)) => failure.kind = "PathExists"

\* C1 witness: a rerun wrote songs and artists anew and was then aborted by
\* the write of users, whose location held rows of the earlier run.
C1_Witness ==
    /\ pc = "failed"
    /\ failure = [kind |-> "PathExists", at |-> "write_users"]
    /\ runStart["users"].files # EmptyBag
    /\ "artists" \in DOMAIN committed

\* C2: when a run fails because an input location is missing, none of the
\* five tables has been written by that run.
C2_SourceUnavailableBeforeOutput ==
    (pc = "failed" /\ failure.kind = "SourceUnavailable") =>
        \A t \in Tables : store[t] = runStart[t]

\* C3: a location carrying the job-success marker holds all rows of its table,
\* and every table committed earlier in the run is as it was committed.
C3_WriteFailureIsolated ==
    /\ \A t \in Tables \ {"songplays"} :
          store[t].success => store[t].files = TableRows(t, EmptyBag)
    /\ store["songplays"].success =>
          \E d \in DropDuplicates(LogDf) :
              store["songplays"].files = TableRows("songplays", d)
    /\ \A t \in DOMAIN committed : store[t] = committed[t]

\* C3 witness: the write of users failed with part of its rows under the
\* path, after songs and artists were committed.
C3_Witness ==
    /\ pc = "failed"
    /\ failure = [kind |-> "WriteFailure", at |-> "write_users"]
    /\ store["users"].files # EmptyBag
    /\ store["users"].files # TableRows("users", EmptyBag)
    /\ "songs" \in DOMAIN committed
    /\ committed["songs"].files # EmptyBag

\* C4: a later complete run over the same inputs leaves in every table the
\* rows the first complete run left.
C4_Idempotent ==
    (pc = "done" /\ firstDone # <<>>) =>
        \A t \in Tables : store[t].files = firstDone[t].files

\* C5: every songplays row comes from a retained NextSong event and a song
\* record with equal title and artist name and carries their columns; a
\* retained event that matches no song record has no row.
C5_JoinCorrect ==
    SongplaysJobRan =>
        /\ \A x \in DOMAIN store["songplays"].files :
              \E e \in DOMAIN retained, r \in DOMAIN songFiles :
                  /\ e.page = "NextSong"
                  /\ e.song = r.title
                  /\ e.artist = r.artist_name
                  /\ x.song_id = r.song_id
                  /\ x.artist_id = r.artist_id
                  /\ x.start_time = e.start_time
                  /\ x.userId = e.userId
                  /\ x.level = e.level
                  /\ x.sessionId = e.sessionId
                  /\ x.location = e.location
                  /\ x.userAgent = e.userAgent
        /\ \A e \in DOMAIN retained :
              (\A r \in DOMAIN songFiles : ~(e.song = r.title /\ e.artist = r.artist_name))
                  => \A x \in DOMAIN store["songplays"].files :
                        x.start_time # e.start_time

\* C5 witness: a complete run with a songplays row and a retained event that
\* matches no song record.
C5_Witness ==
    /\ pc = "done"
    /\ store["songplays"].files # EmptyBag
    /\ \E e \in DOMAIN retained :
          \A r \in DOMAIN songFiles : ~(e.song = r.title /\ e.artist = r.artist_name)

\* C6: no two Songs rows share song_id and no two Artists rows share artist_id.
C6_KeyUnique ==
    /\ \A x, y \in DOMAIN store["songs"].files : x.song_id = y.song_id => x = y
    /\ \A x, y \in DOMAIN store["artists"].files : x.artist_id = y.artist_id => x = y

\* C7: Songs, Artists and Users hold every row once and no row with a null key.
C7_DedupAndNonNullKey ==
    /\ \A x \in DOMAIN store["songs"].files :
          store["songs"].files[x] = 1 /\ x.song_id # NULL
    /\ \A x \in DOMAIN store["artists"].files :
          store["artists"].files[x] = 1 /\ x.artist_id # NULL
    /\ \A x \in DOMAIN store["users"].files :
          store["users"].files[x] = 1 /\ x.userId # NULL

\* C7 witness: the three tables are written from inputs that hold a song
\* record twice and a NextSong event with a null userId.
C7_Witness ==
    /\ store["songs"].success /\ store["artists"].success /\ store["users"].success
    /\ \E r \in DOMAIN songFiles : songFiles[r] = 2 /\ r.song_id # NULL
    /\ \E e \in DOMAIN logFiles : e.page = "NextSong" /\ e.userId = NULL
    /\ store["users"].files # EmptyBag

\* The usage log without the records whose page is not 'NextSong'.
OnlyNextSong == [e \in {x \in DOMAIN logFiles : x.page = "NextSong"} |-> logFiles[e]]

\* C8: the tables written are those of the input with every record whose page
\* is not 'NextSong' removed.
C8_OnlyNextSongContributes ==
    LET timed == BagOfAll(WithTimeColumns, OnlyNextSong)
    IN  /\ store["users"].success => store["users"].files = users_table(OnlyNextSong)
        /\ store["time"].success => store["time"].files = time_table(timed)
        /\ store["songplays"].success =>
              \E d \in DropDuplicates(timed) :
                  store["songplays"].files = songplays_table(songFiles, d)
        /\ \A x \in DOMAIN store["songplays"].files :
              \E e \in DOMAIN timed : x.start_time = e.start_time /\ x.userId = e.userId

\* C8 witness: a complete run over a log that holds a record of another page
\* and a NextSong event.
C8_Witness ==
    /\ pc = "done"
    /\ \E e \in DOMAIN logFiles : e.page # "NextSong"
    /\ store["users"].files # EmptyBag

\* C9: every Time row holds the instant ts/1000 s as start_time and the hour,
\* day, year and month of that start_time, and there is one row per ts.
C9_TimeSelfConsistent ==
    /\ \A x \in DOMAIN store["time"].files :
          LET date == CivilFromDays(DateOfTimestamp(x.start_time))
          IN  /\ x.start_time = [s |-> x.ts.s, us |-> x.ts.ms * 1000]
              /\ x.hour = HourOfTimestamp(x.start_time)
              /\ x.day = date.day
              /\ x.year = date.year
              /\ x.month = date.month
              /\ store["time"].files[x] = 1
    /\ \A x, y \in DOMAIN store["time"].files : x.ts = y.ts => x = y

\* C10: one event is retained for every start_time of the qualifying events,
\* and songplays rows with the same start_time agree on the event's columns.
C10_OneEventPerStartTime ==
    /\ SongplaysJobRan =>
          \A e \in DOMAIN LogDf :
              \E k \in DOMAIN retained :
                  /\ k.start_time = e.start_time
                  /\ retained[k] = 1
                  /\ \A j \in DOMAIN retained : j.start_time = e.start_time => j = k
    /\ \A x, y \in DOMAIN store["songplays"].files :
          x.start_time = y.start_time =>
              /\ x.userId = y.userId
              /\ x.level = y.level
              /\ x.sessionId = y.sessionId
              /\ x.location = y.location
              /\ x.userAgent = y.userAgent

\* C10 witness: two qualifying events share a start_time and two song records
\* match the one retained, giving two songplays rows with that start_time.
C10_Witness ==
    /\ pc = "done"
    /\ \E a, b \in DOMAIN LogDf : a # b /\ a.start_time = b.start_time
    /\ \E x, y \in DOMAIN store["songplays"].files :
          x # y /\ x.start_time = y.start_time

====
